---- MODULE Spec2Model ----
(***************************************************************************)
(* Profile synchronization engine of bridle: the profile store, the live   *)
(* configuration directory of one harness, the marker files in it and the  *)
(* persisted active-profile registry.                                      *)
(*                                                                         *)
(* A directory tree is a function from paths to entry kinds.  A file name  *)
(* is the pair <<prefix, rest>>, so that name.starts_with(MARKER_PREFIX)   *)
(* is a test on the first component.                                       *)
(***************************************************************************)
EXTENDS Naturals, Sequences, FiniteSets

\* ------------------------------------------------------------- bounds
MaxDepth == 2
MaxEdits == 2
MaxEntries == 2
MaxTrips == 2
MaxListed == 3
MaxNameLen == 3
MaxFailures == 2
MaxRuns == 2

\* ------------------------------------------------------------- names
MARKER_PREFIX == "BRIDLE_PROFILE_"

\* "default" is the name create_from_current_if_missing uses.
DefaultName == "default"
ProfileSeq == <<DefaultName, "work">>
ProfileNames == {ProfileSeq[i] : i \in DOMAIN ProfileSeq}
NoProfile == "none"

\* The ordinary file names of a directory's top level and of the levels below.
PlainSeq == <<"x", "y">>
NestedSeq == <<"s">>

Harness == "h"
HarnessIds == {"h", "g"}

MarkerName(p) == <<MARKER_PREFIX, p>>
PlainName(n) == <<"", n>>
HasMarkerPrefix(name) == name[1] = MARKER_PREFIX

TopNameSeq ==
  [i \in 1..Len(ProfileSeq) |-> MarkerName(ProfileSeq[i])]
    \o [i \in 1..Len(PlainSeq) |-> PlainName(PlainSeq[i])]
SubNameSeq == [i \in 1..Len(NestedSeq) |-> PlainName(NestedSeq[i])]

\* ------------------------------------------------------------- trees
RECURSIVE WalkAll(_, _)
\* The entries named `names` of directory `dir` and everything below them,
\* every directory before its children.
WalkAll(dir, names) ==
  IF names = <<>> THEN <<>>
  ELSE LET p == Append(dir, Head(names))
           below == IF Len(p) < MaxDepth /\ ~HasMarkerPrefix(Head(names))
                    THEN WalkAll(p, SubNameSeq) ELSE <<>>
       IN <<p>> \o below \o WalkAll(dir, Tail(names))

\* Every path of the model, in traversal order; a tree maps the index of a
\* path in PathSeq to the kind of entry at that path.
PathSeq == WalkAll(<<>>, TopNameSeq)
NPaths == Len(PathSeq)
AllPaths == 1..NPaths
PathAt(elems) == CHOOSE i \in AllPaths : PathSeq[i] = elems
Depth == [i \in AllPaths |-> Len(PathSeq[i])]
TopName == [i \in AllPaths |-> PathSeq[i][1]]
Parent ==
  [i \in AllPaths |->
     IF Len(PathSeq[i]) = 1 THEN 0
     ELSE PathAt(SubSeq(PathSeq[i], 1, Len(PathSeq[i]) - 1))]
Under ==
  [i \in AllPaths |->
     {j \in AllPaths : /\ Len(PathSeq[j]) >= Len(PathSeq[i])
                       /\ SubSeq(PathSeq[j], 1, Len(PathSeq[i])) = PathSeq[i]}]
PlainPaths == {i \in AllPaths : ~HasMarkerPrefix(TopName[i])}
MarkerPaths == {i \in AllPaths : HasMarkerPrefix(TopName[i])}
MarkerPath(profile_name) == PathAt(<<MarkerName(profile_name)>>)

Absent == "absent"
Dir == "dir"
ZeroBytes == ""
Contents == {"c1", "c2"}
FileKinds == Contents \cup {ZeroBytes}
Kinds == {Absent, Dir} \cup FileKinds

IsFile(k) == k \in FileKinds

EmptyTree == [p \in AllPaths |-> Absent]

WellFormed(t) ==
  \A p \in AllPaths : IF t[p] # Absent /\ Depth[p] > 1 THEN t[Parent[p]] = Dir ELSE TRUE

\* remove_file / remove_dir_all: the entry at p and everything below it.
RemoveEntry(t, p) == [q \in AllPaths |-> IF q \in Under[p] THEN Absent ELSE t[q]]

\* ------------------------------------------------------------- Mirror Copy
\* A copy that fails on a file that is already there instead of overwriting it.
CopyEntryNoOverwrite(src, r, p, excl) ==
  IF ~r.ok \/ src[p] = Absent \/ TopName[p] \in excl THEN r
  ELSE IF src[p] = Dir
       THEN IF r.tree[p] = Absent THEN [r EXCEPT !.tree[p] = Dir]
            ELSE IF r.tree[p] = Dir THEN r
            ELSE [r EXCEPT !.ok = FALSE]
       ELSE IF r.tree[p] # Absent THEN [r EXCEPT !.ok = FALSE]
            ELSE [r EXCEPT !.tree[p] = src[p]]

\* Step 1 for one source entry: a directory is created when missing, a file
\* is copied over a missing or existing file.  A file where a directory is
\* wanted, or a directory where a file is wanted, is an IO error.
CopyEntry(src, r, p, excl) ==
  IF ~r.ok \/ src[p] = Absent \/ TopName[p] \in excl THEN r
  ELSE IF src[p] = Dir
       THEN IF r.tree[p] = Absent THEN [r EXCEPT !.tree[p] = Dir]
            ELSE IF r.tree[p] = Dir THEN r
            ELSE [r EXCEPT !.ok = FALSE]
       ELSE IF r.tree[p] = Dir THEN [r EXCEPT !.ok = FALSE]
            ELSE [r EXCEPT !.tree[p] = src[p]]

\* A fault: the IO of one step of one phase fails, whatever the trees hold.
NoFault == [phase |-> "none", path |-> 0]
Faults == [phase : {"copy", "prune"}, path : AllPaths]

\* A copy step that skips the entry it cannot copy and carries on.
CopyStepSwallowsFault(src, r, p, excl, fault) ==
  IF fault = [phase |-> "copy", path |-> p] THEN r ELSE CopyEntry(src, r, p, excl)

\* Step 1 for one source entry under a fault: the first error ends the work,
\* and what was written stays.
CopyStep(src, r, p, excl, fault) ==
  IF /\ fault = [phase |-> "copy", path |-> p]
     /\ r.ok /\ src[p] # Absent /\ TopName[p] \notin excl
  THEN [r EXCEPT !.ok = FALSE]
  ELSE CopyEntry(src, r, p, excl)

RECURSIVE CopyPhase(_, _, _, _, _)
CopyPhase(src, r, excl, fault, i) ==
  IF i > NPaths THEN r
  ELSE CopyPhase(src, CopyStep(src, r, i, excl, fault), excl, fault, i + 1)

\* A removal that does not spare the excluded names.
PruneEntryNoExclusions(src, r, p, excl) ==
  IF r.ok /\ r.tree[p] # Absent /\ src[p] = Absent
  THEN [r EXCEPT !.tree = RemoveEntry(r.tree, p)]
  ELSE r

\* Step 2 for one destination entry: removed when the source has no entry
\* at that path and its top-level name is not excluded.
PruneEntry(src, r, p, excl) ==
  IF r.ok /\ r.tree[p] # Absent /\ src[p] = Absent /\ TopName[p] \notin excl
  THEN [r EXCEPT !.tree = RemoveEntry(r.tree, p)]
  ELSE r

\* Step 2 for one destination entry under a fault.
PruneStep(src, r, p, excl, fault) ==
  IF /\ fault = [phase |-> "prune", path |-> p]
     /\ r.ok /\ r.tree[p] # Absent /\ src[p] = Absent /\ TopName[p] \notin excl
  THEN [r EXCEPT !.ok = FALSE]
  ELSE PruneEntry(src, r, p, excl)

RECURSIVE PrunePhase(_, _, _, _, _)
PrunePhase(src, r, excl, fault, i) ==
  IF i > NPaths THEN r
  ELSE PrunePhase(src, PruneStep(src, r, i, excl, fault), excl, fault, i + 1)

\* mirror(source_dir, dest_dir, exclusions) with the IO of one step failing.
MirrorWithFault(src, dst, excl, fault) ==
  PrunePhase(src, CopyPhase(src, [ok |-> TRUE, tree |-> dst], excl, fault, 1),
             excl, fault, 1)

\* A mirror that ignores the exclusions.
MirrorNoExclusions(src, dst, excl) == MirrorWithFault(src, dst, {}, NoFault)

\* mirror(source_dir, dest_dir, exclusions): [ok, tree], tree being the
\* destination afterwards (partly written when ok is FALSE).
Mirror(src, dst, excl) == MirrorWithFault(src, dst, excl, NoFault)

\* ------------------------------------------------------------- ProfileName
\* A candidate name is a sequence of characters; CharSeq lists the characters
\* of the model in byte order, which is the order str::cmp compares by.
CharSeq == <<"-", ".", "/", ":", "\\", "a">>
Chars == {CharSeq[i] : i \in DOMAIN CharSeq}
CharRank(c) == CHOOSE i \in DOMAIN CharSeq : CharSeq[i] = c
PathSeparators == {"/", "\\"}
ReservedChars == {":"}
Alphanumerics == {"a"}

RECURSIVE StringsWithin(_)
StringsWithin(n) ==
  IF n = 0 THEN {<<>>}
  ELSE LET shorter == StringsWithin(n - 1)
       IN shorter \cup {Append(w, c) : w \in shorter, c \in Chars}

\* ProfileName::new(candidate) is Ok: the candidate is not empty, holds no
\* path separator and no reserved character, and is neither "." nor "..".
ValidProfileName(candidate) ==
  /\ candidate # <<>>
  /\ \A i \in DOMAIN candidate : candidate[i] \notin PathSeparators \cup ReservedChars
  /\ candidate \notin {<<".">>, <<".", ".">>}

\* ProfileName::new(candidate)
ProfileNameNew(candidate) ==
  IF ValidProfileName(candidate)
  THEN [res |-> "ok", as_str |-> candidate]
  ELSE [res |-> "ValidationError", as_str |-> <<>>]

\* ---------------------------------------------------------------- paths
\* A path is the sequence of its components, which is what PathBuf compares
\* by; a component is a sequence of characters.  An identifier the model
\* keeps whole (a profile name, a harness id) is a run of alphanumerics, one
\* token of text.
Platforms == {"unix", "windows"}
Platform == "unix"
Separators(platform) == IF platform = "unix" THEN {"/"} ELSE PathSeparators
Text(word) == <<word>>
CurDir == <<".">>
ParentDir == <<".", ".">>

RECURSIVE SplitOn(_, _, _)
SplitOn(text, seps, segment) ==
  IF text = <<>> THEN <<segment>>
  ELSE IF Head(text) \in seps
       THEN <<segment>> \o SplitOn(Tail(text), seps, <<>>)
       ELSE SplitOn(Tail(text), seps, Append(segment, Head(text)))

\* Path::components past the first: empty segments and "." are dropped.
Components(text, platform) ==
  SelectSeq(SplitOn(text, Separators(platform), <<>>),
            LAMBDA c : c # <<>> /\ c # CurDir)

\* The text starts with a root, or on Windows with a drive prefix.
IsAbsolute(text, platform) ==
  /\ text # <<>>
  /\ \/ Head(text) \in Separators(platform)
     \/ platform = "windows" /\ Len(text) >= 2 /\ text[2] = ":"

\* PathBuf::join(base, text): an absolute text replaces the base.
PathJoin(base, text, platform) ==
  IF IsAbsolute(text, platform)
  THEN Components(text, platform)
  ELSE base \o Components(text, platform)

RECURSIVE NameLess(_, _)
\* a.as_str().cmp(b.as_str()) = Ordering::Less
NameLess(a, b) ==
  IF b = <<>> THEN FALSE
  ELSE IF a = <<>> THEN TRUE
  ELSE IF CharRank(Head(a)) # CharRank(Head(b))
       THEN CharRank(Head(a)) < CharRank(Head(b))
       ELSE NameLess(Tail(a), Tail(b))

\* ------------------------------------------------------------- list_profiles
\* The directory profiles_dir/<harness_id>: whether it exists, and its
\* entries [name, is_dir], of distinct names.
Missing == [exists |-> FALSE, entries |-> {}]
EntryNames ==
  {<<"a">>, <<"a", "-">>, <<"a", "a">>, <<"-">>, <<"a", ".">>, <<"\\">>, <<"a", "\\">>}
DirEntries == [name : EntryNames, is_dir : BOOLEAN]

RECURSIVE DirsWithin(_)
DirsWithin(n) ==
  IF n = 0 THEN {{}}
  ELSE LET smaller == DirsWithin(n - 1)
       IN smaller \cup
            UNION {{d \cup {e} : e \in {f \in DirEntries : \A g \in d : g.name # f.name}} :
                     d \in smaller}

RECURSIVE InsertName(_, _)
InsertName(seq, n) ==
  IF seq = <<>> THEN <<n>>
  ELSE IF NameLess(n, Head(seq)) THEN <<n>> \o seq
  ELSE <<Head(seq)>> \o InsertName(Tail(seq), n)

RECURSIVE SortNames(_)
\* profiles.sort_by(|a, b| a.as_str().cmp(b.as_str())) of the names pushed
\* in the order read_dir gave them.
SortNames(names) ==
  IF names = {} THEN <<>>
  ELSE LET n == CHOOSE n \in names : TRUE
       IN InsertName(SortNames(names \ {n}), n)

\* A list_profiles without the is_dir test.
ListProfilesAnyEntry(dir) ==
  IF ~dir.exists THEN [op |-> "list_profiles", res |-> "ok", names |-> <<>>]
  ELSE [op |-> "list_profiles", res |-> "ok",
        names |-> SortNames({e.name : e \in {f \in dir.entries : ValidProfileName(f.name)}})]

\* list_profiles(harness)
ListProfiles(dir) ==
  IF ~dir.exists THEN [op |-> "list_profiles", res |-> "ok", names |-> <<>>]
  ELSE [op |-> "list_profiles", res |-> "ok",
        names |-> SortNames({e.name : e \in {f \in dir.entries :
                                                f.is_dir /\ ValidProfileName(f.name)}})]

\* ------------------------------------------------------------- state
VARIABLES
  live,       \* the harness's live configuration directory (a tree)
  store,      \* profile name -> the tree under profiles_dir/<harness_id>/<name>
  profiles,   \* the profile names whose directory exists
  registry,   \* the persisted BridleConfig.active: harness id -> profile name
  edits,      \* how many edits the user has made to the live directory
  last,       \* the last operation: its name, argument, result and binding
  added,      \* the file the user last added, followed through two switches
  captured,   \* the tree of the first of two snapshots, followed through switches
  msrc, mdst, mexcl, mres,  \* Mirror Copy on its own: inputs and the runs' results
  hdir,       \* list_profiles on its own: the entries of profiles_dir/<harness_id>
  cand,       \* ProfileName::new on its own: the candidate string
  pres,       \* the result of list_profiles or of ProfileName::new
  mdir,       \* the marker functions on their own: the directory they are given
  mruns,      \* the runs of a marker function on it, each on the result of the last
  config      \* BridleConfig on its own: the value in memory and the last call on it

vars == <<live, store, profiles, registry, edits, last, added, captured,
          msrc, mdst, mexcl, mres, hdir, cand, pres, mdir, mruns, config>>

St == [live |-> live, store |-> store, profiles |-> profiles, registry |-> registry]

\* ------------------------------------------------------------- registry
\* An active_profile_for that looks up another harness's entry.
ActiveProfileForOtherHarness(cfg, harness_id) ==
  cfg[CHOOSE other \in HarnessIds : other # harness_id]

ActiveProfileFor(cfg, harness_id) == cfg[harness_id]

\* A set_active_profile that keeps the entry a harness already has.
SetActiveProfileKeepsEarlier(cfg, harness_id, profile) ==
  IF cfg[harness_id] # NoProfile THEN cfg ELSE [cfg EXCEPT ![harness_id] = profile]

SetActiveProfile(cfg, harness_id, profile) == [cfg EXCEPT ![harness_id] = profile]

ClearActiveProfile(cfg, harness_id) == [cfg EXCEPT ![harness_id] = NoProfile]

\* BridleConfig::default() and the files a load can find.
DefaultConfig == [h \in HarnessIds |-> NoProfile]
Configs == [HarnessIds -> ProfileNames \cup {NoProfile}]

\* A BridleConfig in memory after a call: `was` is its map before the call.
Called(op, harness_id, profile, was, active) ==
  [op |-> op, harness_id |-> harness_id, profile |-> profile, was |-> was,
   active |-> active]
Loaded(file) == Called("load", "none", NoProfile, file, file)

\* BridleConfig::load, set_active_profile, save, every failure swallowed.
PersistOutcomes == {"saved", "failed"}

\* A persist step that falls back to BridleConfig::default() when the load
\* fails and saves that: the other entries of the registry are lost.
PersistActiveFromDefault(s, name, outcome) ==
  IF outcome = "saved"
  THEN [s EXCEPT !.registry = SetActiveProfile(s.registry, Harness, name)]
  ELSE [s EXCEPT !.registry =
          SetActiveProfile([h \in HarnessIds |-> NoProfile], Harness, name)]

PersistActive(s, name, outcome) ==
  IF outcome = "saved"
  THEN [s EXCEPT !.registry = SetActiveProfile(s.registry, Harness, name)]
  ELSE s

\* ------------------------------------------------------------- markers
\* A scan of the directory that stops at the first entry with the prefix.
MarkerEntriesFirstFound(t) ==
  {p \in MarkerPaths : t[p] # Absent /\ \A q \in MarkerPaths : t[q] # Absent => p <= q}

MarkerEntries(t) == {p \in MarkerPaths : t[p] # Absent}
MarkerExclusions == {MarkerName(p) : p \in ProfileNames}

\* A delete_marker_files that removes nothing.
DeleteMarkerFilesNone(t) == t

\* A delete_marker_files without the starts_with test: every file goes.
DeleteMarkerFilesEveryFile(t) ==
  [p \in AllPaths |-> IF Depth[p] = 1 /\ IsFile(t[p]) THEN Absent ELSE t[p]]

\* A delete_marker_files with the starts_with test inverted.
DeleteMarkerFilesNotPrefixed(t) ==
  [p \in AllPaths |->
     IF Depth[p] = 1 /\ ~HasMarkerPrefix(TopName[p]) /\ IsFile(t[p]) THEN Absent ELSE t[p]]

\* delete_marker_files(dir): every file of the top level whose name starts
\* with MARKER_PREFIX is removed.

DeleteMarkerFiles(t) ==
  [p \in AllPaths |->
     IF Depth[p] = 1 /\ HasMarkerPrefix(TopName[p]) /\ IsFile(t[p]) THEN Absent ELSE t[p]]

CreateMarkerFile(t, profile_name) ==
  IF t[MarkerPath(profile_name)] = Dir
  THEN [ok |-> FALSE, tree |-> t]
  ELSE [ok |-> TRUE, tree |-> [t EXCEPT ![MarkerPath(profile_name)] = ZeroBytes]]

ReadMarker(t) ==
  IF Cardinality(MarkerEntries(t)) = 1
  THEN TopName[CHOOSE p \in MarkerEntries(t) : TRUE][2]
  ELSE NoProfile

\* A directory given to a marker function: whether it exists, and its tree.
NoDir == [exists |-> FALSE, tree |-> EmptyTree]

\* clear_markers(dir), which is delete_marker_files(dir) with its test of
\* dir.exists().
ClearMarkers(d) ==
  IF ~d.exists
  THEN [ok |-> TRUE, dir |-> d, out |-> NoProfile]
  ELSE [ok |-> TRUE, dir |-> [d EXCEPT !.tree = DeleteMarkerFiles(@)], out |-> NoProfile]

\* write_marker(dir, profile_name): the markers are cleared, then the new one
\* is created; File::create fails in a directory that does not exist.
WriteMarker(d, profile_name) ==
  IF ~d.exists
  THEN [ok |-> FALSE, dir |-> d, out |-> NoProfile]
  ELSE LET made == CreateMarkerFile(ClearMarkers(d).dir.tree, profile_name)
       IN [ok |-> made.ok, dir |-> [d EXCEPT !.tree = made.tree], out |-> NoProfile]

\* read_marker(dir)
ReadMarkerIn(d) ==
  [ok |-> TRUE, dir |-> d, out |-> IF d.exists THEN ReadMarker(d.tree) ELSE NoProfile]

\* Step 2 of switch_profile: the marker, else the registry.
CurrentlyBound(s) ==
  IF ReadMarker(s.live) # NoProfile
  THEN ReadMarker(s.live)
  ELSE ActiveProfileFor(s.registry, Harness)

\* ------------------------------------------------------------- manager
\* profile_path(harness, name): profiles_dir.join(harness.id()).join(name)
ProfilesDir == "profiles_dir"
NoPath == <<>>
HarnessDir(harness_id, platform) ==
  PathJoin(<<Text(ProfilesDir)>>, Text(harness_id), platform)

\* A profile_path that forgets the harness: profiles_dir.join(name).
ProfilePathNoHarness(harness_id, name, platform) ==
  PathJoin(<<Text(ProfilesDir)>>, name, platform)

\* profile_path(harness, name), `name` being the text name.as_str() returns.
ProfilePath(harness_id, name, platform) ==
  PathJoin(HarnessDir(harness_id, platform), name, platform)

ProfileExists(s, name) == name \in s.profiles

\* A create_profile without the path.exists() test: create_dir_all succeeds
\* on a directory that is already there.
CreateProfileNoExistsTest(s, name) ==
  [res |-> "ok", path |-> ProfilePath(Harness, Text(name), Platform),
   s |-> [s EXCEPT !.profiles = @ \cup {name}]]

CreateProfile(s, name) ==
  IF ProfileExists(s, name)
  THEN [res |-> "ProfileExists", path |-> NoPath, s |-> s]
  ELSE [res |-> "ok", path |-> ProfilePath(Harness, Text(name), Platform),
        s |-> [s EXCEPT !.profiles = @ \cup {name}, !.store[name] = EmptyTree]]

\* A copy that moves: the source directory is left empty.
CopyConfigFilesMove(s, source_is_live, name) ==
  IF source_is_live
  THEN LET r == Mirror(s.live, s.store[name], MarkerExclusions)
       IN [ok |-> r.ok,
           s |-> [s EXCEPT !.store[name] = r.tree, !.profiles = @ \cup {name},
                           !.live = [p \in AllPaths |->
                                       IF p \in MarkerPaths THEN s.live[p] ELSE Absent]]]
  ELSE LET r == Mirror(s.store[name], s.live, MarkerExclusions)
       IN [ok |-> r.ok, s |-> [s EXCEPT !.live = r.tree]]

\* files::copy_config_files(harness, source_is_live, profile_path): a Mirror
\* Copy between the live directory and the profile's directory, the marker
\* files excluded; the destination directory is created when missing.
CopyConfigFiles(s, source_is_live, name) ==
  IF source_is_live
  THEN LET r == Mirror(s.live, s.store[name], MarkerExclusions)
       IN [ok |-> r.ok,
           s |-> [s EXCEPT !.store[name] = r.tree, !.profiles = @ \cup {name}]]
  ELSE LET r == Mirror(s.store[name], s.live, MarkerExclusions)
       IN [ok |-> r.ok, s |-> [s EXCEPT !.live = r.tree]]

\* A create_from_current that passes source_is_live = false: the copy runs
\* from the new profile into the live directory.
CreateFromCurrentWrongDirection(s, name, outcome) ==
  LET made == CreateProfile(s, name)
      copy == CopyConfigFiles(made.s, FALSE, name)
  IN IF made.res # "ok" THEN made
     ELSE IF ~copy.ok THEN [res |-> "Io", path |-> NoPath, s |-> copy.s]
     ELSE [res |-> "ok", path |-> made.path, s |-> PersistActive(copy.s, name, outcome)]

\* create_from_current_with_resources(harness, None, name)
CreateFromCurrent(s, name, outcome) ==
  LET made == CreateProfile(s, name)
      copy == CopyConfigFiles(made.s, TRUE, name)
  IN IF made.res # "ok" THEN made
     ELSE IF ~copy.ok THEN [res |-> "Io", path |-> NoPath, s |-> copy.s]
     ELSE [res |-> "ok", path |-> made.path, s |-> PersistActive(copy.s, name, outcome)]

\* create_from_current_with_resources(harness, None, name) with the IO of one
\* step of the copy failing: the `?` after copy_config_files returns the error
\* at once, and nothing removes the directory create_profile made.
CreateFromCurrentInterrupted(s, name, outcome, fault) ==
  LET made == CreateProfile(s, name)
      r == MirrorWithFault(made.s.live, made.s.store[name], MarkerExclusions, fault)
      copied == [made.s EXCEPT !.store[name] = r.tree]
  IN IF made.res # "ok" THEN made
     ELSE IF ~r.ok THEN [res |-> "Io", path |-> NoPath, s |-> copied]
     ELSE [res |-> "ok", path |-> made.path, s |-> PersistActive(copied, name, outcome)]

InstallationStatuses == {"FullyInstalled", "ConfigOnly", "NotInstalled"}
StatusErr == "Err"

\* A create_from_current_if_missing without the installation status test.
CreateFromCurrentIfMissingAnyStatus(s, status, outcome) ==
  IF status = StatusErr THEN [res |-> "Harness", s |-> s]
  ELSE IF ProfileExists(s, DefaultName) THEN [res |-> "false", s |-> s]
  ELSE LET made == CreateFromCurrent(s, DefaultName, outcome)
       IN [res |-> IF made.res = "ok" THEN "true" ELSE made.res, s |-> made.s]

\* create_from_current_if_missing(harness), status being what
\* harness.installation_status() returns.
CreateFromCurrentIfMissing(s, status, outcome) ==
  IF status = StatusErr THEN [res |-> "Harness", s |-> s]
  ELSE IF status # "FullyInstalled" THEN [res |-> "false", s |-> s]
  ELSE IF ProfileExists(s, DefaultName) THEN [res |-> "false", s |-> s]
  ELSE LET made == CreateFromCurrent(s, DefaultName, outcome)
       IN [res |-> IF made.res = "ok" THEN "true" ELSE made.res, s |-> made.s]

\* A delete_profile that also unbinds: the registry entry and the markers go.
DeleteProfileUnbinding(s, name) ==
  IF ~ProfileExists(s, name)
  THEN [res |-> "ProfileNotFound", s |-> s]
  ELSE [res |-> "ok",
        s |-> [s EXCEPT !.profiles = @ \ {name}, !.store[name] = EmptyTree,
                        !.registry = ClearActiveProfile(@, Harness),
                        !.live = DeleteMarkerFiles(@)]]

DeleteProfile(s, name) ==
  IF ~ProfileExists(s, name)
  THEN [res |-> "ProfileNotFound", s |-> s]
  ELSE [res |-> "ok",
        s |-> [s EXCEPT !.profiles = @ \ {name}, !.store[name] = EmptyTree]]

\* The facets show_profile extracts with an error channel, in the order it
\* extracts them.
FacetSeq == <<"mcp_servers", "skills", "commands", "plugins", "agents", "rules_file">>
Facets == {FacetSeq[i] : i \in DOMAIN FacetSeq}
FailureSets == {f \in SUBSET Facets : Cardinality(f) <= MaxFailures}
LoadOutcomes == {"loaded", "failed"}
ConfigDirOutcomes == {"found", "err"}
NoInfo == [is_active |-> FALSE, path |-> NoPath, extraction_path |-> "none",
           failing |-> {}, extraction_errors |-> <<>>]

\* show_profile(harness, name): `load` is the outcome of BridleConfig::load,
\* `config_dir` that of harness.config_dir(), `failing` the facets whose
\* extraction fails.  Nothing is written.
ShowProfile(s, name, load, config_dir, failing) ==
  IF ~ProfileExists(s, name)
  THEN [res |-> "ProfileNotFound", info |-> NoInfo]
  ELSE LET is_active == load = "loaded" /\ ActiveProfileFor(s.registry, Harness) = name
           extraction_path ==
             IF is_active /\ config_dir = "found" THEN "live" ELSE "stored"
       IN [res |-> "ok",
           info |-> [is_active |-> is_active,
                     path |-> ProfilePath(Harness, Text(name), Platform),
                     extraction_path |-> extraction_path,
                     failing |-> failing,
                     extraction_errors |-> SelectSeq(FacetSeq, LAMBDA f : f \in failing)]]

\* The points of switch_profile at which the process may die.
CrashPoints == {"saved_out", "copied_in", "markers_cleared", "marker_written"}

Outcome(res, s, saveout) == [res |-> res, s |-> s, saveout |-> saveout]

\* switch_profile(harness, target_name), run up to `stop` ("done": to its
\* end).  Steps 2 to 6: the binding, the save-out into the bound profile, the
\* copy-in from the target, the markers, the registry.
SwitchRun(s, target_name, outcome, stop) ==
  LET bound == CurrentlyBound(s)
      saves == bound # NoProfile /\ bound # target_name
      saved == IF saves THEN CopyConfigFiles(s, TRUE, bound) ELSE [ok |-> TRUE, s |-> s]
      done == IF saves THEN "done" ELSE "none"
      copied == CopyConfigFiles(saved.s, FALSE, target_name)
      cleared == [copied.s EXCEPT !.live = DeleteMarkerFiles(@)]
      marked == CreateMarkerFile(cleared.live, target_name)
      written == [cleared EXCEPT !.live = marked.tree]
  IN IF ~saved.ok THEN Outcome("Io", saved.s, "failed")
     ELSE IF stop = "saved_out" THEN Outcome("crash", saved.s, done)
     ELSE IF ~ProfileExists(saved.s, target_name)
          THEN Outcome("ProfileNotFound", saved.s, done)
     ELSE IF ~copied.ok THEN Outcome("Io", copied.s, done)
     ELSE IF stop = "copied_in" THEN Outcome("crash", copied.s, done)
     ELSE IF stop = "markers_cleared" THEN Outcome("crash", cleared, done)
     ELSE IF ~marked.ok THEN Outcome("Io", cleared, done)
     ELSE IF stop = "marker_written" THEN Outcome("crash", written, done)
     ELSE Outcome("ok", PersistActive(written, target_name, outcome), done)

\* ------------------------------------------------------------- history
NoAdded == [stage |-> 0, path |-> 1, content |-> Absent, home |-> NoProfile]
NoCapture == [stage |-> 0, first |-> NoProfile, tree |-> EmptyTree, trips |-> 0]

\* The record of an operation: `was` is the live directory before it, `bound`
\* the binding before it, `fresh` the paths a save-out created in the bound
\* profile's stored tree, `saveout` whether a save-out ran.
Op(op, name, res) ==
  [op |-> op, name |-> name, res |-> res, at |-> "done",
   bound |-> CurrentlyBound(St), was |-> live,
   persisted |-> FALSE, fresh |-> {}, saveout |-> "none", path |-> NoPath,
   status |-> "none", info |-> NoInfo,
   only |-> FALSE, scope |-> FALSE, from |-> NoProfile, origin |-> NoProfile,
   follows |-> last.follows, deleted |-> last.deleted]

\* When `follows` says so, `deleted` is the set of the profiles a
\* delete_profile removed and no create_profile or create_from_current has
\* named since.
Deleting(rec, name) ==
  [rec EXCEPT !.deleted = IF last.follows /\ rec.res = "ok" THEN @ \cup {name} ELSE @]
Creating(rec, name) ==
  [rec EXCEPT !.deleted = IF last.follows THEN @ \ {name} ELSE @]

\* The history of the calls so far, kept in the record of the last one when
\* `scope` says it is followed (nothing but create_from_current,
\* switch_profile, crashes of a switch and edits of the user has run): `only`,
\* nothing but create_from_current and switch_profile calls that succeeded
\* and persisted the registry has run; `origin`, the profile the content of
\* the live directory was last captured into or switched in from, and `from`,
\* the same before the call.
Tracked(rec, succeeded, origin) ==
  [rec EXCEPT !.only = last.only /\ succeeded,
              !.scope = last.scope,
              !.from = IF last.scope THEN last.origin ELSE NoProfile,
              !.origin = IF last.scope THEN origin ELSE NoProfile]

\* The paths of tree `after` that tree `before` did not have.
Fresh(before, after) == {p \in AllPaths : before[p] = Absent /\ after[p] # Absent}

Install(s) ==
  /\ live' = s.live
  /\ store' = s.store
  /\ profiles' = s.profiles
  /\ registry' = s.registry

MirrorIdle == UNCHANGED <<msrc, mdst, mexcl, mres>>
ManagerIdle ==
  UNCHANGED <<live, store, profiles, registry, edits, last, added, captured>>
NamesIdle == UNCHANGED <<hdir, cand, pres, mdir, mruns, config>>

\* ------------------------------------------------------------- the user
CanHold(t, p) == IF Depth[p] = 1 THEN TRUE ELSE t[Parent[p]] = Dir

\* fs::write(live_config.join(p), c)
UserWriteFile ==
  \E p \in PlainPaths, c \in Contents :
    /\ edits < MaxEdits
    /\ CanHold(live, p)
    /\ live[p] # Dir
    /\ live[p] # c
    /\ live' = [live EXCEPT ![p] = c]
    /\ edits' = edits + 1
    /\ last' = Tracked(Op("edit", NoProfile, "ok"), FALSE, last.origin)
    /\ added' = IF live[p] = Absent /\ CurrentlyBound(St) \in profiles
                THEN [stage |-> 1, path |-> p, content |-> c, home |-> CurrentlyBound(St)]
                ELSE NoAdded
    /\ captured' = IF captured.stage = 1 THEN captured ELSE NoCapture
    /\ UNCHANGED <<store, profiles, registry>>
    /\ MirrorIdle
    /\ NamesIdle

\* fs::create_dir_all(live_config.join(p)), one level at a time
UserMkDir ==
  \E p \in PlainPaths :
    /\ edits < MaxEdits
    /\ CanHold(live, p)
    /\ live[p] = Absent
    /\ live' = [live EXCEPT ![p] = Dir]
    /\ edits' = edits + 1
    /\ last' = Tracked(Op("edit", NoProfile, "ok"), FALSE, last.origin)
    /\ added' = NoAdded
    /\ captured' = IF captured.stage = 1 THEN captured ELSE NoCapture
    /\ UNCHANGED <<store, profiles, registry>>
    /\ MirrorIdle
    /\ NamesIdle

UserRemove ==
  \E p \in PlainPaths :
    /\ edits < MaxEdits
    /\ live[p] # Absent
    /\ live' = RemoveEntry(live, p)
    /\ edits' = edits + 1
    /\ last' = Tracked(Op("edit", NoProfile, "ok"), FALSE, last.origin)
    /\ added' = NoAdded
    /\ captured' = IF captured.stage = 1 THEN captured ELSE NoCapture
    /\ UNCHANGED <<store, profiles, registry>>
    /\ MirrorIdle
    /\ NamesIdle

\* ------------------------------------------------------------- operations
DoCreateProfile ==
  \E name \in ProfileNames :
    \E r \in {CreateProfile(St, name)} :
       /\ Install(r.s)
       /\ last' = Creating([Op("create_profile", name, r.res) EXCEPT !.path = r.path], name)
       /\ added' = NoAdded
       /\ captured' = NoCapture
       /\ UNCHANGED edits
       /\ MirrorIdle
       /\ NamesIdle

DoCreateFromCurrent ==
  \E name \in ProfileNames, outcome \in PersistOutcomes :
    \E r \in {CreateFromCurrent(St, name, outcome)} :
       /\ Install(r.s)
       /\ last' = Tracked(Creating([Op("create_from_current", name, r.res)
                                       EXCEPT !.persisted = (r.res = "ok" /\ outcome = "saved"),
                                              !.path = r.path], name),
                           r.res = "ok" /\ outcome = "saved",
                           IF r.res = "ok" THEN name ELSE last.origin)
       /\ added' = NoAdded
       /\ captured' =
            IF r.res # "ok" THEN NoCapture
            ELSE IF captured.stage = 1 /\ captured.first # name
                 THEN [captured EXCEPT !.stage = 2]
                 ELSE [stage |-> 1, first |-> name, tree |-> r.s.store[name], trips |-> 0]
       /\ UNCHANGED edits
       /\ MirrorIdle
       /\ NamesIdle

\* A create_from_current whose copy meets an IO error.
DoCreateFromCurrentInterrupted ==
  \E name \in ProfileNames, outcome \in PersistOutcomes, fault \in Faults :
    \E r \in {CreateFromCurrentInterrupted(St, name, outcome, fault)} :
       /\ r.res = "Io"
       /\ Install(r.s)
       /\ last' = Tracked(Creating(Op("create_from_current", name, r.res), name),
                           FALSE, last.origin)
       /\ added' = NoAdded
       /\ captured' = NoCapture
       /\ UNCHANGED edits
       /\ MirrorIdle
       /\ NamesIdle

DoCreateFromCurrentIfMissing ==
  \E status \in InstallationStatuses \cup {StatusErr}, outcome \in PersistOutcomes :
    \E r \in {CreateFromCurrentIfMissing(St, status, outcome)} :
       /\ Install(r.s)
       /\ last' = [Op("create_from_current_if_missing", DefaultName, r.res)
                     EXCEPT !.persisted = (r.res = "true" /\ outcome = "saved"),
                            !.status = status,
                            !.deleted = IF r.res = "true" THEN @ \ {DefaultName} ELSE @]
       /\ added' = NoAdded
       /\ captured' = NoCapture
       /\ UNCHANGED edits
       /\ MirrorIdle
       /\ NamesIdle

DoDeleteProfile ==
  \E name \in ProfileNames :
    \E r \in {DeleteProfile(St, name)} :
       /\ Install(r.s)
       /\ last' = Deleting(Op("delete_profile", name, r.res), name)
       /\ added' = NoAdded
       /\ captured' = NoCapture
       /\ UNCHANGED edits
       /\ MirrorIdle
       /\ NamesIdle

DoShowProfile ==
  \E name \in ProfileNames, load \in LoadOutcomes, config_dir \in ConfigDirOutcomes,
     failing \in FailureSets :
    \E r \in {ShowProfile(St, name, load, config_dir, failing)} :
       /\ last' = [Op("show_profile", name, r.res) EXCEPT !.info = r.info]
       /\ UNCHANGED <<live, store, profiles, registry, edits, added, captured>>
       /\ MirrorIdle
       /\ NamesIdle

DoSwitchProfile ==
  \E name \in ProfileNames, outcome \in PersistOutcomes :
    \E r \in {SwitchRun(St, name, outcome, "done")}, bound \in {CurrentlyBound(St)} :
       /\ Install(r.s)
       /\ last' = Tracked([Op("switch_profile", name, r.res)
                              EXCEPT !.persisted = (r.res = "ok" /\ outcome = "saved"),
                                     !.saveout = r.saveout,
                                     !.fresh = IF bound \in ProfileNames
                                               THEN Fresh(store[bound], r.s.store[bound])
                                               ELSE {}],
                           r.res = "ok" /\ outcome = "saved",
                           IF r.res = "ok" THEN name
                           ELSE IF r.s.live = live THEN last.origin ELSE NoProfile)
       /\ added' =
            IF r.res = "ok" /\ added.stage = 1 /\ name # added.home
            THEN [added EXCEPT !.stage = 2]
            ELSE IF r.res = "ok" /\ added.stage = 2 /\ name = added.home
                 THEN [added EXCEPT !.stage = 3]
                 ELSE NoAdded
       /\ captured' =
            IF captured.stage # 2 THEN NoCapture
            ELSE IF r.res = "ok" /\ name = captured.first /\ captured.trips < MaxTrips
                 THEN [captured EXCEPT !.trips = @ + 1]
                 ELSE captured
       /\ UNCHANGED edits
       /\ MirrorIdle
       /\ NamesIdle

\* switch_profile dying at one of its crash points.
DoSwitchCrash ==
  \E name \in ProfileNames, at \in CrashPoints :
    \E r \in {SwitchRun(St, name, "saved", at)}, bound \in {CurrentlyBound(St)} :
       /\ r.res = "crash"
       /\ Install(r.s)
       /\ last' = Tracked([Op("crash", name, r.res)
                              EXCEPT !.at = at,
                                     !.saveout = r.saveout,
                                     !.fresh = IF bound \in ProfileNames
                                               THEN Fresh(store[bound], r.s.store[bound])
                                               ELSE {}],
                           FALSE,
                           IF at = "saved_out" THEN last.origin ELSE name)
       /\ added' = NoAdded
       /\ captured' = NoCapture
       /\ UNCHANGED edits
       /\ MirrorIdle
       /\ NamesIdle

\* ------------------------------------------------------------- Mirror Copy alone
AddEntries(t) ==
  {[t EXCEPT ![p] = k] :
     p \in {q \in AllPaths : t[q] = Absent /\ CanHold(t, q)}, k \in Kinds \ {Absent}}

RECURSIVE TreesWithin(_)
\* The well-formed trees of at most n entries.
TreesWithin(n) ==
  IF n = 0 THEN {EmptyTree}
  ELSE LET smaller == TreesWithin(n - 1)
       IN smaller \cup UNION {AddEntries(t) : t \in smaller}

TopNames == {TopNameSeq[i] : i \in DOMAIN TopNameSeq}
ExclusionSets == {{}, MarkerExclusions} \cup {{n} : n \in TopNames}

MirrorFirst ==
  /\ mres = <<>>
  /\ mres' = <<Mirror(msrc, mdst, mexcl)>>
  /\ UNCHANGED <<msrc, mdst, mexcl>>
  /\ ManagerIdle
  /\ NamesIdle

MirrorAgain ==
  /\ Len(mres) = 1
  /\ mres' = Append(mres, Mirror(msrc, mres[1].tree, mexcl))
  /\ UNCHANGED <<msrc, mdst, mexcl>>
  /\ ManagerIdle
  /\ NamesIdle

\* A Mirror Copy that an IO fault interrupts, and the run that follows it once
\* the fault is gone.
MirrorInterrupted ==
  /\ mres = <<>>
  /\ \E fault \in Faults :
       \E r \in {MirrorWithFault(msrc, mdst, mexcl, fault)} :
          /\ r # Mirror(msrc, mdst, mexcl)
          /\ mres' = <<[ok |-> r.ok, tree |-> r.tree, fault |-> fault]>>
  /\ UNCHANGED <<msrc, mdst, mexcl>>
  /\ ManagerIdle
  /\ NamesIdle

MirrorRetry ==
  /\ Len(mres) = 1
  /\ \E r \in {Mirror(msrc, mres[1].tree, mexcl)} :
       mres' = Append(mres, [ok |-> r.ok, tree |-> r.tree, fault |-> NoFault])
  /\ UNCHANGED <<msrc, mdst, mexcl>>
  /\ ManagerIdle
  /\ NamesIdle

\* ------------------------------------------------------------- BridleConfig alone
RegistryIdle ==
  UNCHANGED <<live, store, profiles, edits, last, added, captured,
              hdir, cand, pres, mdir, mruns>>

ConfigLoad ==
  \E outcome \in LoadOutcomes :
    /\ config' = IF outcome = "loaded" THEN Loaded(registry)
                 ELSE Called("load_failed", "none", NoProfile, config.active, config.active)
    /\ UNCHANGED registry
    /\ RegistryIdle
    /\ MirrorIdle

ConfigSetActiveProfile ==
  \E harness_id \in HarnessIds, profile \in ProfileNames :
    /\ config' = Called("set_active_profile", harness_id, profile, config.active,
                        SetActiveProfile(config.active, harness_id, profile))
    /\ UNCHANGED registry
    /\ RegistryIdle
    /\ MirrorIdle

ConfigClearActiveProfile ==
  \E harness_id \in HarnessIds :
    /\ config' = Called("clear_active_profile", harness_id, NoProfile, config.active,
                        ClearActiveProfile(config.active, harness_id))
    /\ UNCHANGED registry
    /\ RegistryIdle
    /\ MirrorIdle

ConfigSave ==
  \E outcome \in PersistOutcomes :
    /\ registry' = IF outcome = "saved" THEN config.active ELSE registry
    /\ config' = Called(IF outcome = "saved" THEN "save" ELSE "save_failed",
                        "none", NoProfile, config.active, config.active)
    /\ RegistryIdle
    /\ MirrorIdle

\* ------------------------------------------------------------- markers alone
\* The directory a run works on, and the run appended to the runs so far.
MarkerDir == IF mruns = <<>> THEN mdir ELSE mruns[Len(mruns)].dir
MarkerRun(op, name, r) ==
  [op |-> op, name |-> name, was |-> MarkerDir, ok |-> r.ok, dir |-> r.dir, out |-> r.out]
Repeats(op, name) ==
  /\ Len(mruns) < MaxRuns
  /\ mruns # <<>> => mruns[1].op = op /\ mruns[1].name = name

RunClearMarkers ==
  /\ Repeats("clear_markers", NoProfile)
  /\ mruns' = Append(mruns, MarkerRun("clear_markers", NoProfile, ClearMarkers(MarkerDir)))
  /\ UNCHANGED <<hdir, cand, pres, mdir, config>>
  /\ ManagerIdle
  /\ MirrorIdle

RunWriteMarker ==
  \E name \in ProfileNames :
    /\ Repeats("write_marker", name)
    /\ mruns' = Append(mruns, MarkerRun("write_marker", name, WriteMarker(MarkerDir, name)))
    /\ UNCHANGED <<hdir, cand, pres, mdir, config>>
    /\ ManagerIdle
    /\ MirrorIdle

RunReadMarker ==
  /\ Repeats("read_marker", NoProfile)
  /\ mruns' = Append(mruns, MarkerRun("read_marker", NoProfile, ReadMarkerIn(MarkerDir)))
  /\ UNCHANGED <<hdir, cand, pres, mdir, config>>
  /\ ManagerIdle
  /\ MirrorIdle

\* ------------------------------------------------------------- specification
InitManager ==
  /\ live = EmptyTree
  /\ store = [n \in ProfileNames |-> EmptyTree]
  /\ profiles = {}
  /\ registry = [h \in HarnessIds |-> NoProfile]
  /\ edits = 0
  /\ last = [op |-> "init", name |-> NoProfile, res |-> "ok", at |-> "done",
             bound |-> NoProfile, was |-> EmptyTree,
             persisted |-> FALSE, fresh |-> {}, saveout |-> "none", path |-> NoPath,
             status |-> "none", info |-> NoInfo,
             only |-> FALSE, scope |-> FALSE, from |-> NoProfile, origin |-> NoProfile,
             follows |-> FALSE, deleted |-> {}]
  /\ added = NoAdded
  /\ captured = NoCapture

NotRun == [op |-> "none"]

InitNames ==
  /\ hdir = Missing
  /\ cand = <<>>
  /\ pres = NotRun
  /\ mdir = NoDir
  /\ mruns = <<>>
  /\ config = Loaded(DefaultConfig)

Init ==
  /\ InitManager
  /\ msrc = EmptyTree
  /\ mdst = EmptyTree
  /\ mexcl = {}
  /\ mres = <<>>
  /\ InitNames

Next ==
  \/ UserWriteFile
  \/ UserMkDir
  \/ UserRemove
  \/ DoCreateProfile
  \/ DoCreateFromCurrent
  \/ DoCreateFromCurrentIfMissing
  \/ DoDeleteProfile
  \/ DoSwitchProfile
  \/ DoSwitchCrash

Spec == Init /\ [][Next]_vars

\* show_profile among the operations that create, delete and bind profiles.
NextShow ==
  \/ DoCreateProfile
  \/ DoCreateFromCurrent
  \/ DoDeleteProfile
  \/ DoSwitchProfile
  \/ DoShowProfile

SpecShow == Init /\ [][NextShow]_vars

InitMirror ==
  /\ InitManager
  /\ msrc \in TreesWithin(MaxEntries)
  /\ mdst \in TreesWithin(MaxEntries)
  /\ mexcl \in ExclusionSets
  /\ mres = <<>>
  /\ InitNames

NextMirror ==
  \/ MirrorFirst
  \/ MirrorAgain

SpecMirror == InitMirror /\ [][NextMirror]_vars

\* create_from_current, switch_profile, its crashes and the user's edits from
\* a fresh installation, the history of the calls being followed.
InitBinding ==
  /\ live = EmptyTree
  /\ store = [n \in ProfileNames |-> EmptyTree]
  /\ profiles = {}
  /\ registry = DefaultConfig
  /\ edits = 0
  /\ last = [op |-> "init", name |-> NoProfile, res |-> "ok", at |-> "done",
             bound |-> NoProfile, was |-> EmptyTree,
             persisted |-> FALSE, fresh |-> {}, saveout |-> "none", path |-> NoPath,
             status |-> "none", info |-> NoInfo,
             only |-> TRUE, scope |-> TRUE, from |-> NoProfile, origin |-> NoProfile,
             follows |-> FALSE, deleted |-> {}]
  /\ added = NoAdded
  /\ captured = NoCapture
  /\ msrc = EmptyTree
  /\ mdst = EmptyTree
  /\ mexcl = {}
  /\ mres = <<>>
  /\ InitNames

NextBinding ==
  \/ UserWriteFile
  \/ UserMkDir
  \/ UserRemove
  \/ DoCreateFromCurrent
  \/ DoSwitchProfile
  \/ DoSwitchCrash

SpecBinding == InitBinding /\ [][NextBinding]_vars

\* The operations that create, delete and bind profiles, and the user's
\* writes, from a fresh installation, the deletions being followed.
InitDeletion ==
  /\ live = EmptyTree
  /\ store = [n \in ProfileNames |-> EmptyTree]
  /\ profiles = {}
  /\ registry = DefaultConfig
  /\ edits = 0
  /\ last = [op |-> "init", name |-> NoProfile, res |-> "ok", at |-> "done",
             bound |-> NoProfile, was |-> EmptyTree,
             persisted |-> FALSE, fresh |-> {}, saveout |-> "none", path |-> NoPath,
             status |-> "none", info |-> NoInfo,
             only |-> FALSE, scope |-> FALSE, from |-> NoProfile, origin |-> NoProfile,
             follows |-> TRUE, deleted |-> {}]
  /\ added = NoAdded
  /\ captured = NoCapture
  /\ msrc = EmptyTree
  /\ mdst = EmptyTree
  /\ mexcl = {}
  /\ mres = <<>>
  /\ InitNames

NextDeletion ==
  \/ UserWriteFile
  \/ DoCreateProfile
  \/ DoCreateFromCurrent
  \/ DoDeleteProfile
  \/ DoSwitchProfile

SpecDeletion == InitDeletion /\ [][NextDeletion]_vars

\* Snapshots of the live directory, some of them interrupted, and the user's
\* edits between them.
NextSnapshot ==
  \/ UserWriteFile
  \/ UserMkDir
  \/ DoCreateFromCurrent
  \/ DoCreateFromCurrentInterrupted
  \/ DoCreateFromCurrentIfMissing

SpecSnapshot == Init /\ [][NextSnapshot]_vars

NextMirrorFault ==
  \/ MirrorInterrupted
  \/ MirrorRetry

SpecMirrorFault == InitMirror /\ [][NextMirrorFault]_vars

\* BridleConfig on every persisted file: loaded, changed, saved.
InitRegistry ==
  /\ live = EmptyTree
  /\ store = [n \in ProfileNames |-> EmptyTree]
  /\ profiles = {}
  /\ registry \in Configs
  /\ edits = 0
  /\ last = [op |-> "init", name |-> NoProfile, res |-> "ok", at |-> "done",
             bound |-> NoProfile, was |-> EmptyTree,
             persisted |-> FALSE, fresh |-> {}, saveout |-> "none", path |-> NoPath,
             status |-> "none", info |-> NoInfo,
             only |-> FALSE, scope |-> FALSE, from |-> NoProfile, origin |-> NoProfile,
             follows |-> FALSE, deleted |-> {}]
  /\ added = NoAdded
  /\ captured = NoCapture
  /\ msrc = EmptyTree
  /\ mdst = EmptyTree
  /\ mexcl = {}
  /\ mres = <<>>
  /\ hdir = Missing
  /\ cand = <<>>
  /\ pres = NotRun
  /\ mdir = NoDir
  /\ mruns = <<>>
  /\ config = Loaded(registry)

NextRegistry ==
  \/ ConfigLoad
  \/ ConfigSetActiveProfile
  \/ ConfigClearActiveProfile
  \/ ConfigSave

SpecRegistry == InitRegistry /\ [][NextRegistry]_vars

\* list_profiles on every harness directory of at most MaxListed entries.
RunListProfiles ==
  /\ pres = NotRun
  /\ pres' = ListProfiles(hdir)
  /\ UNCHANGED <<hdir, cand, mdir, mruns, config>>
  /\ ManagerIdle
  /\ MirrorIdle

InitList ==
  /\ InitManager
  /\ msrc = EmptyTree
  /\ mdst = EmptyTree
  /\ mexcl = {}
  /\ mres = <<>>
  /\ hdir \in {Missing} \cup {[exists |-> TRUE, entries |-> d] : d \in DirsWithin(MaxListed)}
  /\ cand = <<>>
  /\ pres = NotRun
  /\ mdir = NoDir
  /\ mruns = <<>>
  /\ config = Loaded(DefaultConfig)

NextList == RunListProfiles

SpecList == InitList /\ [][NextList]_vars

\* ProfileName::new on every candidate of at most MaxNameLen characters, and
\* profile_path of the name it returns, on either platform.
RunProfileNameNew ==
  /\ pres = NotRun
  /\ \E platform \in Platforms :
       \E r \in {ProfileNameNew(cand)} :
          pres' = [op |-> "ProfileName::new", res |-> r.res, platform |-> platform,
                   path |-> IF r.res = "ok"
                            THEN ProfilePath(Harness, r.as_str, platform)
                            ELSE NoPath]
  /\ UNCHANGED <<hdir, cand, mdir, mruns, config>>
  /\ ManagerIdle
  /\ MirrorIdle

InitName ==
  /\ InitManager
  /\ msrc = EmptyTree
  /\ mdst = EmptyTree
  /\ mexcl = {}
  /\ mres = <<>>
  /\ hdir = Missing
  /\ cand \in StringsWithin(MaxNameLen)
  /\ pres = NotRun
  /\ mdir = NoDir
  /\ mruns = <<>>
  /\ config = Loaded(DefaultConfig)

NextName == RunProfileNameNew

SpecName == InitName /\ [][NextName]_vars

\* The marker functions on every directory of at most MaxEntries entries,
\* and on a directory that does not exist.
InitMarker ==
  /\ InitManager
  /\ msrc = EmptyTree
  /\ mdst = EmptyTree
  /\ mexcl = {}
  /\ mres = <<>>
  /\ hdir = Missing
  /\ cand = <<>>
  /\ pres = NotRun
  /\ mdir \in {NoDir} \cup {[exists |-> TRUE, tree |-> t] : t \in TreesWithin(MaxEntries)}
  /\ mruns = <<>>
  /\ config = Loaded(DefaultConfig)

NextMarker ==
  \/ RunClearMarkers
  \/ RunWriteMarker
  \/ RunReadMarker

SpecMarker == InitMarker /\ [][NextMarker]_vars

\* ------------------------------------------------------------- claims
SwitchedOk == last.op = "switch_profile" /\ last.res = "ok"
SavedOutOf == last.bound # NoProfile /\ last.bound # last.name
SamePlain(t, u) == \A p \in PlainPaths : t[p] = u[p]
NoMarkers(t) == \A p \in MarkerPaths : t[p] = Absent

\* C1: a file the user adds to the live directory while a profile A that
\* exists is bound is in A's stored tree, with its content, after the switch
\* to another profile, and back in the live directory, with its content, after
\* the switch back to A.
C1_AutoSaveRoundTrip ==
  /\ added.stage = 2 => store[added.home][added.path] = added.content
  /\ added.stage = 3 => live[added.path] = added.content

C1_Witness ==
  /\ added.stage = 3
  /\ Depth[added.path] = MaxDepth
  /\ last.was[added.path] = Absent

\* C2: right after a successful switch_profile(T) the live directory, marker
\* files aside, is T's stored tree: nothing else is left in it.
C2_FullReplace ==
  SwitchedOk => SamePlain(live, store[last.name]) /\ NoMarkers(store[last.name])

C2_Witness ==
  /\ SwitchedOk
  /\ \E p \in PlainPaths : last.was[p] # Absent /\ live[p] = Absent
  /\ \E p \in PlainPaths : last.was[p] = Absent /\ IsFile(live[p])

\* C3: after a successful switch away from the bound profile A, A's stored
\* tree is the live directory as it was before the switch, marker files left
\* out.
C3_SaveOut ==
  (SwitchedOk /\ SavedOutOf) =>
     SamePlain(store[last.bound], last.was) /\ NoMarkers(store[last.bound])

C3_Witness ==
  /\ SwitchedOk
  /\ SavedOutOf
  /\ MarkerEntries(last.was) # {}
  /\ \E p \in last.fresh : Depth[p] = MaxDepth /\ Parent[p] \in last.fresh

\* C4: after create_from_current(A), then create_from_current(B), and from
\* then on only switch_profile calls, every file captured in A is in the live
\* directory with its captured content after each successful switch to A.
C4_RoundTripStable ==
  (captured.stage = 2 /\ SwitchedOk /\ last.name = captured.first) =>
     \A p \in AllPaths : IsFile(captured.tree[p]) => live[p] = captured.tree[p]

\* C5: switch_profile(T) with no directory for T fails with
\* ProfileNotFound and leaves the live directory and its markers as they were.
C5_MissingTarget ==
  (last.op = "switch_profile" /\ last.name \notin profiles) =>
     last.res = "ProfileNotFound" /\ live = last.was

\* C6 as stated: after a successful switch_profile(T) the only marker in the
\* live directory is T's and the registry maps the harness to T; the live
\* directory never holds two markers.
C6_SingleBindingAsStated ==
  /\ SwitchedOk =>
       /\ MarkerEntries(live) = {MarkerPath(last.name)}
       /\ live[MarkerPath(last.name)] = ZeroBytes
       /\ ActiveProfileFor(registry, Harness) = last.name
  /\ Cardinality(MarkerEntries(live)) <= 1

\* C6 amended: as stated, the registry mapping the harness to T when the
\* registry was loaded and saved without error.
C6_SingleBinding ==
  /\ SwitchedOk =>
       /\ MarkerEntries(live) = {MarkerPath(last.name)}
       /\ live[MarkerPath(last.name)] = ZeroBytes
       /\ last.persisted => ActiveProfileFor(registry, Harness) = last.name
  /\ Cardinality(MarkerEntries(live)) <= 1

C6_Witness ==
  /\ SwitchedOk
  /\ last.persisted
  /\ MarkerEntries(last.was) # {}
  /\ MarkerEntries(last.was) # MarkerEntries(live)

\* C7: after switch_profile from bound A to B dies between the copy-in and the
\* registry update, the live directory holds B's content and the next
\* switch_profile does not write A's stored tree.
CrashedAfterCopyIn ==
  /\ last.op = "crash"
  /\ last.at \in {"copied_in", "markers_cleared", "marker_written"}
  /\ last.bound \in ProfileNames
  /\ last.bound # last.name

C7_CrashAfterCopyIn ==
  [][/\ CrashedAfterCopyIn' => SamePlain(live', store'[last'.name])
     /\ (CrashedAfterCopyIn /\ last'.op = "switch_profile") =>
           store'[last.bound] = store[last.bound]]_vars

\* C8: when switch_profile from bound A to B dies between the save-out and
\* the copy-in, the marker and the binding are what they were, and
\* switch_profile(B) run again ends as the uninterrupted call would have.
C8_CrashAfterSaveOut ==
  [][(last'.op = "crash" /\ last'.at = "saved_out") =>
        /\ ReadMarker(live') = ReadMarker(live)
        /\ CurrentlyBound(St') = CurrentlyBound(St)
        /\ \A outcome \in PersistOutcomes :
             SwitchRun(St', last'.name, outcome, "done")
               = SwitchRun(St, last'.name, outcome, "done")]_vars

C8_Witness ==
  /\ last.op = "crash"
  /\ last.at = "saved_out"
  /\ SavedOutOf
  /\ ReadMarker(live) = last.bound
  /\ last.name \in profiles
  /\ last.fresh # {}

\* C9: a Mirror Copy that ends without error leaves in the destination, under
\* every name that is not excluded, exactly what the source has there, and
\* under every excluded name what the destination had.
C9_MirrorPostcondition ==
  (Len(mres) >= 1 /\ mres[1].ok) =>
     \A p \in AllPaths :
        mres[1].tree[p] = IF TopName[p] \in mexcl THEN mdst[p] ELSE msrc[p]

C9_Witness ==
  /\ Len(mres) = 1
  /\ mres[1].ok
  /\ \E p \in AllPaths : /\ TopName[p] \in mexcl
                         /\ mdst[p] # Absent /\ msrc[p] # Absent /\ msrc[p] # mdst[p]
  /\ \E p \in AllPaths : /\ TopName[p] \notin mexcl
                         /\ mdst[p] = Dir /\ msrc[p] = Absent
  /\ \E p \in AllPaths : /\ TopName[p] \notin mexcl
                         /\ IsFile(msrc[p]) /\ mdst[p] = Absent

\* C10: a second Mirror Copy from the same source gives the result of the
\* first, and an empty source onto an empty destination leaves it empty.
C10_MirrorIdempotent ==
  /\ Len(mres) = 2 => mres[2] = mres[1]
  /\ (Len(mres) >= 1 /\ msrc = EmptyTree /\ mdst = EmptyTree) =>
        mres[1] = [ok |-> TRUE, tree |-> EmptyTree]

C10_Witness ==
  /\ Len(mres) = 2
  /\ mres[1].ok
  /\ mres[1].tree # mdst
  /\ \E p \in AllPaths : IsFile(msrc[p]) /\ IsFile(mdst[p]) /\ msrc[p] # mdst[p]
                         /\ TopName[p] \notin mexcl

\* C11: create_profile(name) on a name whose directory exists returns
\* ProfileExists and changes nothing; on a name without one it adds an empty
\* directory for name, changes nothing else and returns
\* profiles_dir/<harness_id>/<name>.
C11_ExclusiveCreation ==
  [][last'.op = "create_profile" =>
       IF last'.name \in profiles
       THEN /\ last'.res = "ProfileExists"
            /\ St' = St
       ELSE /\ last'.res = "ok"
            /\ last'.path = <<Text(ProfilesDir), Text(Harness), Text(last'.name)>>
            /\ profiles' = profiles \cup {last'.name}
            /\ store'[last'.name] = EmptyTree
            /\ \A n \in ProfileNames \ {last'.name} : store'[n] = store[n]
            /\ live' = live /\ registry' = registry]_vars

C11_Witness ==
  /\ last.op = "create_profile"
  /\ last.res = "ProfileExists"
  /\ store[last.name] # EmptyTree
  /\ live # store[last.name]

\* C12 as stated: create_from_current(name) on a name that is taken fails with
\* ProfileExists and copies nothing; on a new name it succeeds, the new
\* profile's stored tree is the live directory, entry for entry, and the
\* registry maps the harness to name.
C12_SnapshotCreationAsStated ==
  [][last'.op = "create_from_current" =>
       IF last'.name \in profiles
       THEN last'.res = "ProfileExists" /\ St' = St
       ELSE /\ last'.res = "ok"
            /\ store'[last'.name] = live
            /\ ActiveProfileFor(registry', Harness) = last'.name]_vars

\* C12 amended: the new profile's stored tree is the live directory, marker
\* files aside, and the registry maps the harness to name when it was loaded
\* and saved without error.
C12_SnapshotCreation ==
  [][last'.op = "create_from_current" =>
       IF last'.name \in profiles
       THEN last'.res = "ProfileExists" /\ St' = St
       ELSE /\ last'.res = "ok"
            /\ SamePlain(store'[last'.name], live)
            /\ live' = live
            /\ last'.persisted => ActiveProfileFor(registry', Harness) = last'.name]_vars

C12_Witness ==
  /\ last.op = "create_from_current"
  /\ last.res = "ok"
  /\ last.persisted
  /\ MarkerEntries(live) # {}
  /\ \E p \in PlainPaths : Depth[p] = MaxDepth /\ IsFile(store[last.name][p])

\* C13: delete_profile(name) on a name without a directory fails with
\* ProfileNotFound and changes nothing; otherwise the profile and its whole
\* tree are gone and the live directory, its markers, the registry and the
\* other profiles are what they were, the bound profile included.
C13_DeleteFrame ==
  [][last'.op = "delete_profile" =>
       IF last'.name \notin profiles
       THEN last'.res = "ProfileNotFound" /\ St' = St
       ELSE /\ last'.res = "ok"
            /\ profiles' = profiles \ {last'.name}
            /\ store'[last'.name] = EmptyTree
            /\ \A n \in ProfileNames \ {last'.name} : store'[n] = store[n]
            /\ live' = live /\ registry' = registry]_vars

C13_Witness ==
  /\ last.op = "delete_profile"
  /\ last.res = "ok"
  /\ ReadMarker(live) = last.name
  /\ ActiveProfileFor(registry, Harness) = last.name
  /\ \E p \in PlainPaths : live[p] # Absent
  /\ \E n \in profiles : store[n] # EmptyTree

\* C14: whenever switch_profile or create_from_current succeeds with the
\* registry persisted, the same call with the load or the save of the registry
\* failing succeeds too and leaves the live directory and the stored trees the
\* same; the registry is then what it was.
C14_BestEffortPersistence ==
  [][last'.op \in {"switch_profile", "create_from_current"} =>
       LET good == IF last'.op = "switch_profile"
                   THEN SwitchRun(St, last'.name, "saved", "done")
                   ELSE CreateFromCurrent(St, last'.name, "saved")
       IN good.res = "ok" =>
            /\ last'.res = "ok"
            /\ live' = good.s.live
            /\ store' = good.s.store
            /\ profiles' = good.s.profiles
            /\ IF last'.persisted THEN registry' = good.s.registry
                                  ELSE registry' = registry]_vars

C14_Witness ==
  /\ last.op = "switch_profile"
  /\ last.res = "ok"
  /\ ~last.persisted
  /\ ReadMarker(live) = last.name
  /\ ActiveProfileFor(registry, Harness) \in ProfileNames \ {last.name}
  /\ \E p \in PlainPaths : live[p] # last.was[p]

\* C15: create_from_current_if_missing returns false and changes nothing
\* when the harness is not FullyInstalled or the profile "default" exists;
\* otherwise it returns true and "default" is a new profile holding the live
\* directory's content.
C15_IfMissing ==
  [][(last'.op = "create_from_current_if_missing" /\ last'.status # StatusErr) =>
       IF last'.status # "FullyInstalled" \/ "default" \in profiles
       THEN last'.res = "false" /\ St' = St
       ELSE /\ last'.res = "true"
            /\ profiles' = profiles \cup {"default"}
            /\ SamePlain(store'["default"], live)
            /\ \A n \in ProfileNames \ {"default"} : store'[n] = store[n]
            /\ live' = live]_vars

C15_Witness ==
  /\ last.op = "create_from_current_if_missing"
  /\ last.status = "FullyInstalled"
  /\ last.res = "false"
  /\ "default" \in profiles
  /\ ~SamePlain(store["default"], live)

\* C16: list_profiles returns, without changing anything, the names of the
\* entries of the harness directory that are directories and valid profile
\* names, each once, in ascending order; none, and no error, when the harness
\* directory is missing.
C16_ListProfiles ==
  [][(pres = NotRun /\ pres'.op = "list_profiles") =>
       /\ hdir' = hdir /\ St' = St
       /\ pres'.res = "ok"
       /\ {pres'.names[i] : i \in DOMAIN pres'.names} =
            {e.name : e \in {f \in hdir.entries : f.is_dir /\ ValidProfileName(f.name)}}
       /\ ~hdir.exists => pres'.names = <<>>
       /\ \A i, j \in DOMAIN pres'.names :
             i < j => NameLess(pres'.names[i], pres'.names[j])]_vars

C16_Witness ==
  /\ pres.op = "list_profiles"
  /\ Len(pres.names) = 2
  /\ Len(pres.names[1]) < Len(pres.names[2])
  /\ \E e \in hdir.entries : ~e.is_dir /\ ValidProfileName(e.name)

\* C17: show_profile fails with ProfileNotFound when the profile path does
\* not exist; otherwise it succeeds, reads the live directory exactly when the
\* named profile is the currently bound one and the stored snapshot otherwise,
\* lists every failed facet extraction in extraction_errors, and in either
\* case leaves the live directory, the store and the registry as they were.
C17_ShowProfile ==
  [][last'.op = "show_profile" =>
       /\ St' = St
       /\ ~ProfileExists(St, last'.name) => last'.res = "ProfileNotFound"
       /\ ProfileExists(St, last'.name) =>
            /\ last'.res = "ok"
            /\ (last'.info.extraction_path = "live") <=> (CurrentlyBound(St) = last'.name)
            /\ last'.info.extraction_path \in {"live", "stored"}
            /\ {last'.info.extraction_errors[i] : i \in DOMAIN last'.info.extraction_errors}
                 = last'.info.failing]_vars

\* C18: ProfileName::new rejects the empty string, every candidate holding a
\* path separator, and "." and ".."; it accepts every non-empty candidate made
\* of alphanumerics and hyphens; and the profile_path of an accepted name is
\* exactly profiles_dir/<harness_id>/<name>, a direct child of the harness's
\* profile directory, on either platform.
C18_ProfileName ==
  [][(pres = NotRun /\ pres'.op = "ProfileName::new") =>
       /\ cand = <<>> => pres'.res = "ValidationError"
       /\ (\E i \in DOMAIN cand : cand[i] \in PathSeparators) => pres'.res = "ValidationError"
       /\ cand \in {CurDir, ParentDir} => pres'.res = "ValidationError"
       /\ (cand # <<>> /\ \A i \in DOMAIN cand : cand[i] \in Alphanumerics \cup {"-"})
            => pres'.res = "ok"
       /\ pres'.res = "ok" =>
            /\ pres'.path = <<Text(ProfilesDir), Text(Harness), cand>>
            /\ SubSeq(pres'.path, 1, Len(pres'.path) - 1) = HarnessDir(Harness, pres'.platform)
            /\ cand # ParentDir]_vars

C18_Witness ==
  /\ pres.op = "ProfileName::new"
  /\ pres.res = "ok"
  /\ pres.platform = "windows"
  /\ Len(cand) = MaxNameLen
  /\ \E i \in DOMAIN cand : cand[i] = "-"
  /\ \E i \in DOMAIN cand : cand[i] \in Alphanumerics

\* C19: switch_profile resolves the bound profile from the marker of the live
\* directory whenever read_marker returns a name, whatever the registry says,
\* and from the registry entry only when read_marker returns none: the
\* save-out of a successful switch goes into that profile and no other stored
\* tree changes; when neither yields a name, no save-out is performed.
C19_BoundResolution ==
  [][last'.op = "switch_profile" =>
       LET marker == ReadMarker(live)
           entry == registry[Harness]
           source == IF marker # NoProfile THEN marker ELSE entry
       IN /\ \A p \in ProfileNames \ {source} :
                store'[p] = store[p] /\ (p \in profiles' <=> p \in profiles)
          /\ (source \notin {NoProfile, last'.name} /\ last'.res = "ok") =>
                /\ last'.saveout = "done"
                /\ SamePlain(store'[source], live)
          /\ (marker = NoProfile /\ entry = NoProfile) =>
                /\ last'.saveout = "none"
                /\ store' = store
                /\ profiles' = profiles]_vars

\* A successful switch to "work" from a live directory whose marker names
\* "default" while the registry names "work": the save-out went into
\* "default", which gained an entry.
C19_Witness ==
  /\ SwitchedOk
  /\ last.name = "work"
  /\ ReadMarker(last.was) = DefaultName
  /\ ~last.persisted
  /\ registry[Harness] = "work"
  /\ last.saveout = "done"
  /\ last.fresh # {}

\* C20: switch_profile(T) when T is the currently bound profile performs no
\* save-out and leaves every stored tree, T's included, as it was; when it
\* succeeds the live directory holds T's stored tree, whatever it held before,
\* under the marker of T alone.
C20_SwitchToBound ==
  [][(last'.op = "switch_profile" /\ CurrentlyBound(St) = last'.name) =>
       /\ last'.saveout = "none"
       /\ store' = store
       /\ profiles' = profiles
       /\ last'.res = "ok" =>
            /\ SamePlain(live', store[last'.name])
            /\ MarkerEntries(live') = {MarkerPath(last'.name)}]_vars

\* A successful switch to the bound profile that threw away an edit of the
\* live directory and brought a stored file back.
C20_Witness ==
  /\ SwitchedOk
  /\ last.bound = last.name
  /\ last.saveout = "none"
  /\ \E p \in PlainPaths : last.was[p] # Absent /\ live[p] = Absent
  /\ \E p \in PlainPaths : IsFile(live[p]) /\ last.was[p] # live[p]

\* C21: clear_markers succeeds and leaves no entry whose name starts with
\* BRIDLE_PROFILE_, changing nothing when the directory does not exist; a
\* write_marker(p) that succeeds leaves exactly one such entry, the one named
\* BRIDLE_PROFILE_<p>; both leave every other entry as it was, and a second
\* application leaves the directory as the first left it.
C21_MarkerWriteClear ==
  \A i \in DOMAIN mruns :
    LET run == mruns[i] IN
    /\ run.op = "clear_markers" =>
          /\ run.ok
          /\ MarkerEntries(run.dir.tree) = {}
          /\ ~run.was.exists => run.dir = run.was
    /\ (run.op = "write_marker" /\ run.ok) =>
          MarkerEntries(run.dir.tree) = {MarkerPath(run.name)}
    /\ run.op \in {"clear_markers", "write_marker"} =>
          /\ SamePlain(run.dir.tree, run.was.tree)
          /\ i > 1 => run.dir = run.was

C23_MirrorFailure ==
  Len(mres) >= 1 =>
    LET fault == mres[1].fault
        t == mres[1].tree
        copies == fault.phase = "copy"
        Copied(p) == msrc[p] # Absent /\ TopName[p] \notin mexcl
        Removed(p) ==
          \E q \in AllPaths : /\ p \in Under[q] /\ q < fault.path
                               /\ msrc[q] = Absent /\ mdst[q] # Absent
                               /\ TopName[q] \notin mexcl
    IN /\ ~mres[1].ok
       /\ \A p \in AllPaths :
             t[p] = IF Copied(p) /\ (copies => p < fault.path) THEN msrc[p]
                    ELSE IF ~copies /\ Removed(p) THEN Absent
                    ELSE mdst[p]
       /\ Len(mres) = 2 =>
             [ok |-> mres[2].ok, tree |-> mres[2].tree] = Mirror(msrc, mdst, mexcl)

\* An interrupted run that had copied a file and had a removal left to do,
\* followed by a run that finished the work.
C23_Witness ==
  /\ Len(mres) = 2
  /\ mres[2].ok
  /\ mres[1].tree # mdst
  /\ mres[1].tree # mres[2].tree
  /\ \E p \in AllPaths : IsFile(msrc[p]) /\ mdst[p] # msrc[p] /\ mres[1].tree[p] = msrc[p]
  /\ \E p \in AllPaths : mdst[p] # Absent /\ mres[2].tree[p] = Absent

\* C24: after set_active_profile(h, p) active_profile_for(h) is p, whatever
\* the entry was; after clear_active_profile(h) it is none; neither changes
\* the entry of another harness id, and neither changes the persisted file,
\* which only a save changes.
C24_RegistryMap ==
  [][/\ config'.op = "set_active_profile" =>
          ActiveProfileFor(config'.active, config'.harness_id) = config'.profile
     /\ config'.op = "clear_active_profile" =>
          ActiveProfileFor(config'.active, config'.harness_id) = NoProfile
     /\ config'.op \in {"set_active_profile", "clear_active_profile"} =>
          /\ \A other \in HarnessIds \ {config'.harness_id} :
                ActiveProfileFor(config'.active, other) = ActiveProfileFor(config.active, other)
          /\ registry' = registry
     /\ registry' # registry => config'.op = "save"]_vars

\* A set_active_profile that replaced an entry while another harness had
\* one, the persisted file still holding the earlier value.
C24_Witness ==
  /\ config.op = "set_active_profile"
  /\ config.was[config.harness_id] \notin {NoProfile, config.profile}
  /\ \E other \in HarnessIds \ {config.harness_id} : config.active[other] # NoProfile
  /\ registry[config.harness_id] = config.was[config.harness_id]

\* C25: after nothing but create_from_current and switch_profile calls that
\* succeeded, the registry persisted each time, a marker in the live
\* directory names the profile the registry maps the harness to.
C25_MarkerRegistryAgree ==
  last.only =>
    \A n \in ProfileNames :
       live[MarkerPath(n)] # Absent => ActiveProfileFor(registry, Harness) = n

\* C26: in any sequence of create_from_current, switch_profile, edits of the
\* user and crashes of a switch followed by a retry, a save-out writes the
\* live tree into the profile its content was last captured into or switched
\* in from, and into no other.
C26_SaveOutTarget ==
  (last.op \in {"switch_profile", "crash"} /\ last.saveout = "done"
     /\ last.from \in ProfileNames) =>
    last.bound = last.from

\* C27: a switch_profile that fails with ProfileNotFound leaves every stored
\* profile tree, the set of profiles and the registry as they were.
C27_NotFoundFrame ==
  [][(last'.op = "switch_profile" /\ last'.res = "ProfileNotFound") =>
       /\ store' = store
       /\ profiles' = profiles
       /\ registry' = registry]_vars

\* C28: a profile that delete_profile removed does not exist again until a
\* create_profile or a create_from_current names it: no switch_profile brings
\* its directory back, whatever the marker or the registry still name.
C28_DeletionDurable ==
  last.follows => \A n \in last.deleted : ~ProfileExists(St, n)

\* C29: a create_from_current that returns an IO error leaves no profile of
\* that name: profile_exists is false afterwards, a create_from_current of the
\* same name made next does not fail with ProfileExists, and a
\* create_from_current_if_missing made next on a fully installed harness does
\* not answer false for a "default" left by the failed call.
C29_FailedSnapshotLeavesNoProfile ==
  [][/\ (last'.op = "create_from_current" /\ last'.res = "Io") =>
          ~ProfileExists(St', last'.name)
     /\ (last.op = "create_from_current" /\ last.res = "Io" /\
          last'.op = "create_from_current" /\ last'.name = last.name) =>
          last'.res # "ProfileExists"
     /\ (last.op = "create_from_current" /\ last.res = "Io" /\
          last.name = DefaultName /\
          last'.op = "create_from_current_if_missing" /\
          last'.status = "FullyInstalled") =>
          last'.res # "false"]_vars

====
